---------------------------- MODULE Spec2Model ----------------------------
(***************************************************************************)
(* Model of src/src/app/page.tsx: the text parser and kinematic metrics    *)
(* (parseFile), the group bookkeeping (normalizeGroupOrders, assignGroup)  *)
(* and the upload handler (handleFiles) of the Home component.             *)
(*                                                                         *)
(* Numbers.  The program computes in IEEE doubles.  The model computes in  *)
(* exact rationals <<n, d>> (d > 0, lowest terms); file tokens are decimal *)
(* integers and the coordinates offered as input have integral pairwise    *)
(* distances, so Math.sqrt is exact on them.  NaN and the infinities are   *)
(* the pairs <<0, 0>>, <<1, 0>> and <<-1, 0>>; the arithmetic is exact on  *)
(* finite values, which is all parseFile meets on the inputs offered.      *)
(***************************************************************************)
EXTENDS Integers, Sequences, FiniteSets, TLC

VARIABLES
    fps,        \* useState(DEFAULT_FPS)
    results,    \* useState<FileRecord[]>([])
    isParsing,  \* useState(false)
    error,      \* useState<string | null>(null)
    sortKey,    \* useState<keyof FileMetrics>("averageSpeed")
    sortDir,    \* useState<"asc" | "desc">("desc")
    batches,    \* handleFiles calls suspended at the await of Promise.all
    started,    \* number of handleFiles calls that reached setIsParsing(true)
    file,       \* parseFile alone: the chunks written to the file under test
    scan,       \* parseFile alone: points and skipped after the line loop
    out         \* parseFile alone: the FileMetrics returned

vars == <<fps, results, isParsing, error, sortKey, sortDir, batches, started,
          file, scan, out>>

uiVars == <<results, isParsing, error, sortKey, sortDir, batches, started>>

parseVars == <<file, scan, out>>

----------------------------------------------------------------------------
(* Bounds of the model *)

MaxLines == 3

----------------------------------------------------------------------------
(* Exact rational arithmetic standing for the doubles of the program *)

Abs(n) == IF n < 0 THEN -n ELSE n

RECURSIVE Gcd(_, _)
Gcd(a, b) == IF b = 0 THEN a ELSE Gcd(b, a % b)

\* n/d in lowest terms with a positive denominator; a zero denominator
\* gives what the division gives in doubles: NaN for 0/0, else an infinity
Rat(n, d) ==
    IF d = 0
    THEN <<(IF n > 0 THEN 1 ELSE IF n < 0 THEN -1 ELSE 0), 0>>
    ELSE LET g == Gcd(Abs(n), Abs(d))
             s == IF d < 0 THEN -1 ELSE 1
         IN  <<(s * n) \div g, (s * d) \div g>>

Zero == <<0, 1>>

OfInt(n) == <<n, 1>>

RAdd(a, b) == Rat(a[1] * b[2] + b[1] * a[2], a[2] * b[2])

RSub(a, b) == Rat(a[1] * b[2] - b[1] * a[2], a[2] * b[2])

RMul(a, b) == Rat(a[1] * b[1], a[2] * b[2])

RDiv(a, b) == Rat(a[1] * b[2], a[2] * b[1])

\* a < b and a <= b: false when either side is NaN
RLess(a, b) == a # <<0, 0>> /\ b # <<0, 0>> /\ a[1] * b[2] < b[1] * a[2]

RLeq(a, b) == a # <<0, 0>> /\ b # <<0, 0>> /\ a[1] * b[2] <= b[1] * a[2]

\* Math.max on two finite numbers
RMax(a, b) == IF RLess(a, b) THEN b ELSE a

\* the root of an integer that is a perfect square
IntSqrt(n) == CHOOSE r \in 0..n : r * r = n

\* Math.sqrt on a rational whose terms are perfect squares
Sqrt(a) == <<IntSqrt(a[1]), IntSqrt(a[2])>>

NaN == <<0, 0>>

Infinity == <<1, 0>>

NegInfinity == <<-1, 0>>

DEFAULT_FPS == Rat(29999, 1000)

\* Number.isFinite(v)
IsFinite(v) == v[2] # 0

\* Number.isNaN(v)
IsNaN(v) == v = NaN

----------------------------------------------------------------------------
(* Text: a sequence of one-character strings *)

Digits == <<"0", "1", "2", "3", "4", "5", "6", "7", "8", "9">>

IsDigit(c) == \E i \in 1..10 : Digits[i] = c

DigitVal(c) == (CHOOSE i \in 1..10 : Digits[i] = c) - 1

\* the characters matched by \s and removed by trim()
IsWs(c) == c \in {" ", "\t", "\r", "\n"}

\* text.split(/\r?\n/): a line ends at "\n", and a "\r" right before it
\* belongs to the separator; the last piece is kept even when empty
SplitLines(text) ==
    LET F[i \in 0..Len(text)] ==
            \* <<lines closed so far, the open line>> after i characters
            IF i = 0 THEN <<(<<>>), (<<>>)>>
            ELSE LET before == F[i - 1]
                     done   == before[1]
                     cur    == before[2]
                 IN  IF text[i] = "\n"
                     THEN IF cur # <<>> /\ cur[Len(cur)] = "\r"
                          THEN <<Append(done, SubSeq(cur, 1, Len(cur) - 1)), <<>>>>
                          ELSE <<Append(done, cur), <<>>>>
                     ELSE <<done, Append(cur, text[i])>>
    IN  Append(F[Len(text)][1], F[Len(text)][2])

\* raw.trim()
Trim(raw) ==
    LET keep == {i \in 1..Len(raw) : ~IsWs(raw[i])}
    IN  IF keep = {} THEN <<>>
        ELSE SubSeq(raw, CHOOSE i \in keep : \A j \in keep : i <= j,
                         CHOOSE i \in keep : \A j \in keep : j <= i)

\* line.split(/\s+/) on a trimmed, non-empty line
SplitWs(line) ==
    LET F[i \in 0..Len(line)] ==
            IF i = 0 THEN <<(<<>>), (<<>>)>>
            ELSE LET before == F[i - 1]
                     done   == before[1]
                     cur    == before[2]
                 IN  IF IsWs(line[i])
                     THEN IF cur = <<>> THEN <<done, cur>>
                          ELSE <<Append(done, cur), <<>>>>
                     ELSE <<done, Append(cur, line[i])>>
    IN  Append(F[Len(line)][1], F[Len(line)][2])

\* the value of a string of decimal digits
DecVal(ds) ==
    LET F[i \in 0..Len(ds)] ==
            IF i = 0 THEN 0 ELSE 10 * F[i - 1] + DigitVal(ds[i])
    IN  F[Len(ds)]

\* Number(token) on a token without white space: an optionally signed run
\* of decimal digits is its value, anything else is NaN
Number(tok) ==
    LET neg  == tok # <<>> /\ tok[1] = "-"
        body == IF neg THEN Tail(tok) ELSE tok
    IN  IF body = <<>> \/ \E i \in 1..Len(body) : ~IsDigit(body[i])
        THEN NaN
        ELSE IF neg THEN OfInt(-DecVal(body)) ELSE OfInt(DecVal(body))

----------------------------------------------------------------------------
(* parseFile *)

distance(a, b) ==
    LET dx == RSub(b.x, a.x)
        dy == RSub(b.y, a.y)
        dz == RSub(b.z, a.z)
    IN  Sqrt(RAdd(RAdd(RMul(dx, dx), RMul(dy, dy)), RMul(dz, dz)))

\* ParseLines without the "if (!line) continue" of line 58: an empty line
\* splits into one empty token and is counted as skipped
ParseLinesCountBlank(lines) ==
    LET F[i \in 0..Len(lines)] ==
            IF i = 0 THEN [points |-> <<>>, skipped |-> 0]
            ELSE LET acc   == F[i - 1]
                     line  == Trim(lines[i])
                     parts == SplitWs(line)
                     frame == Number(parts[1])
                     x     == Number(parts[2])
                     y     == Number(parts[3])
                     z     == Number(parts[4])
                 IN  IF Len(parts) < 4
                     THEN [acc EXCEPT !.skipped = @ + 1]
                     ELSE IF \E value \in {frame, x, y, z} : IsNaN(value)
                     THEN [acc EXCEPT !.skipped = @ + 1]
                     ELSE [acc EXCEPT !.points =
                              Append(@, [frame |-> frame, x |-> x, y |-> y, z |-> z])]
    IN  F[Len(lines)]

\* the loop over the lines: the points pushed and the lines counted as skipped
ParseLines(lines) ==
    LET F[i \in 0..Len(lines)] ==
            IF i = 0 THEN [points |-> <<>>, skipped |-> 0]
            ELSE LET acc   == F[i - 1]
                     line  == Trim(lines[i])
                     parts == SplitWs(line)
                     frame == Number(parts[1])
                     x     == Number(parts[2])
                     y     == Number(parts[3])
                     z     == Number(parts[4])
                 IN  IF line = <<>> THEN acc
                     ELSE IF Len(parts) < 4
                     THEN [acc EXCEPT !.skipped = @ + 1]
                     ELSE IF \E value \in {frame, x, y, z} : IsNaN(value)
                     THEN [acc EXCEPT !.skipped = @ + 1]
                     ELSE [acc EXCEPT !.points =
                              Append(@, [frame |-> frame, x |-> x, y |-> y, z |-> z])]
    IN  F[Len(lines)]

\* whether the segment ending at a point is left out of the accumulation
SegmentSkipped(deltaFrames) == RLeq(deltaFrames, Zero)

\* Segments with "break" for the "continue" of line 101
SegmentsBreak(points, skipped0, rate) ==
    LET F[i \in 1..Len(points)] ==
            IF i = 1
            THEN [skipped |-> skipped0, totalPath |-> Zero, maxSpeed |-> Zero,
                  stopped |-> FALSE]
            ELSE LET acc         == F[i - 1]
                     prev        == points[i - 1]
                     current     == points[i]
                     deltaFrames == RSub(current.frame, prev.frame)
                     segmentDistance == distance(prev, current)
                     segmentTime == RDiv(deltaFrames, rate)
                     speed       == RDiv(segmentDistance, segmentTime)
                 IN  IF acc.stopped THEN acc
                     ELSE IF SegmentSkipped(deltaFrames)
                     THEN [acc EXCEPT !.skipped = @ + 1, !.stopped = TRUE]
                     ELSE [acc EXCEPT !.totalPath = RAdd(@, segmentDistance),
                                      !.maxSpeed  = RMax(@, speed)]
    IN  F[Len(points)]

\* Segments without the "skipped += 1" of line 100
SegmentsUncounted(points, skipped0, rate) ==
    LET F[i \in 1..Len(points)] ==
            IF i = 1
            THEN [skipped |-> skipped0, totalPath |-> Zero, maxSpeed |-> Zero]
            ELSE LET acc         == F[i - 1]
                     prev        == points[i - 1]
                     current     == points[i]
                     deltaFrames == RSub(current.frame, prev.frame)
                     segmentDistance == distance(prev, current)
                     segmentTime == RDiv(deltaFrames, rate)
                     speed       == RDiv(segmentDistance, segmentTime)
                 IN  IF SegmentSkipped(deltaFrames)
                     THEN acc
                     ELSE [acc EXCEPT !.totalPath = RAdd(@, segmentDistance),
                                      !.maxSpeed  = RMax(@, speed)]
    IN  F[Len(points)]

\* the loop over consecutive pairs, from the skipped count of the line loop
Segments(points, skipped0, rate) ==
    LET F[i \in 1..Len(points)] ==
            IF i = 1
            THEN [skipped |-> skipped0, totalPath |-> Zero, maxSpeed |-> Zero]
            ELSE LET acc         == F[i - 1]
                     prev        == points[i - 1]
                     current     == points[i]
                     deltaFrames == RSub(current.frame, prev.frame)
                     segmentDistance == distance(prev, current)
                     segmentTime == RDiv(deltaFrames, rate)
                     speed       == RDiv(segmentDistance, segmentTime)
                 IN  IF SegmentSkipped(deltaFrames)
                     THEN [acc EXCEPT !.skipped = @ + 1]
                     ELSE [acc EXCEPT !.totalPath = RAdd(@, segmentDistance),
                                      !.maxSpeed  = RMax(@, speed)]
    IN  F[Len(points)]

\* the loop over all points: the largest distance from the first point
MaxDisplacement(points) ==
    LET first == points[1]
        F[i \in 0..Len(points)] ==
            IF i = 0 THEN Zero
            ELSE RMax(F[i - 1], distance(first, points[i]))
    IN  F[Len(points)]

\* DurationSec without Math.max(0, ...)
DurationUnclamped(points, rate) ==
    LET first == points[1]
        last  == points[Len(points)]
    IN  RDiv(RSub(last.frame, first.frame), rate)

\* DurationSec in frames: the division by fps left out
DurationInFrames(points, rate) ==
    LET first == points[1]
        last  == points[Len(points)]
    IN  RMax(Zero, RSub(last.frame, first.frame))

\* Math.max(0, (last.frame - first.frame) / fps)
DurationSec(points, rate) ==
    LET first == points[1]
        last  == points[Len(points)]
    IN  RMax(Zero, RDiv(RSub(last.frame, first.frame), rate))

\* ZeroMetrics with a literal 0 for skipped
ZeroMetricsNoSkipped(fileName, points, skipped) ==
    [fileName |-> fileName, points |-> Len(points), skipped |-> 0,
     durationSec |-> Zero, averageSpeed |-> Zero, maxSpeed |-> Zero,
     maxDisplacement |-> Zero, totalPath |-> Zero]

\* the record returned below two points
ZeroMetrics(fileName, points, skipped) ==
    [fileName |-> fileName, points |-> Len(points), skipped |-> skipped,
     durationSec |-> Zero, averageSpeed |-> Zero, maxSpeed |-> Zero,
     maxDisplacement |-> Zero, totalPath |-> Zero]

\* parseFile(file, fps) once file.text() has resolved to text
parseFile(fileName, text, rate) ==
    LET first       == ParseLines(SplitLines(text))
        points      == first.points
        seg         == Segments(points, first.skipped, rate)
        durationSec == DurationSec(points, rate)
    IN  IF Len(points) < 2
        THEN ZeroMetrics(fileName, points, first.skipped)
        ELSE [fileName        |-> fileName,
              points          |-> Len(points),
              skipped         |-> seg.skipped,
              durationSec     |-> durationSec,
              averageSpeed    |-> IF RLess(Zero, durationSec)
                                  THEN RDiv(seg.totalPath, durationSec)
                                  ELSE Zero,
              maxSpeed        |-> seg.maxSpeed,
              maxDisplacement |-> MaxDisplacement(points),
              totalPath       |-> seg.totalPath]

----------------------------------------------------------------------------
(* Input files for parseFile: text written chunk by chunk.  A chunk is the *)
(* raw text of one line with its terminator, and carries what was written  *)
(* into it: a sample (frame and position), a malformed line, or a blank.   *)

\* the decimal numeral of an integer
RECURSIVE Format(_)
Format(n) ==
    IF n < 0 THEN <<"-">> \o Format(-n)
    ELSE IF n < 10 THEN <<Digits[n + 1]>>
    ELSE Append(Format(n \div 10), Digits[(n % 10) + 1])

\* frame indexes offered as input
Frames == {0, 1, 2, 3}

\* positions offered as input: all pairwise distances are integers
Coords == {<<0, 0, 0>>, <<2, 3, 6>>, <<4, 6, 12>>}

Sample(frame, pos, raw) ==
    [kind |-> "point", frame |-> frame, pos |-> pos, raw |-> raw]

Malformed(raw) == [kind |-> "reject", frame |-> 0, pos |-> <<0, 0, 0>>, raw |-> raw]

Blank(raw) == [kind |-> "blank", frame |-> 0, pos |-> <<0, 0, 0>>, raw |-> raw]

\* "frame x y z" and a line feed
PlainLine(frame, pos) ==
    Format(frame) \o <<" ">> \o Format(pos[1]) \o <<" ">> \o Format(pos[2])
        \o <<" ">> \o Format(pos[3]) \o <<"\n">>

Chunks ==
    {Sample(f, c, PlainLine(f, c)) : f \in Frames, c \in Coords}
    \cup
    { \* three tokens
      Malformed(<<"1", " ", "2", " ", "3", "\n">>),
      \* a first token that is no number, CR LF
      Malformed(<<"x", " ", "0", " ", "0", " ", "0", "\r", "\n">>),
      \* a fourth token that is no number
      Malformed(<<"2", " ", "2", " ", "3", " ", "6", "x", "\n">>),
      \* padding, a run of separators, a fifth token, CR LF
      Sample(1, <<2, 3, 6>>,
             <<"\t", "1", " ", " ", "2", "\t", "3", " ", "6", " ", "x", " ", "\r", "\n">>),
      \* white space only, CR LF
      Blank(<<" ", "\t", "\r", "\n">>),
      \* a carriage return alone ends no line: one line of eight tokens
      Sample(0, <<0, 0, 0>>,
             <<"0", " ", "0", " ", "0", " ", "0", "\r",
               "3", " ", "4", " ", "6", " ", "1", "2", "\n">>) }

\* the text of a file: its chunks one after the other
RECURSIVE Text(_)
Text(chunks) ==
    IF chunks = <<>> THEN <<>> ELSE Head(chunks).raw \o Text(Tail(chunks))

\* frame rates offered to parseFile alone
ParseRates == {DEFAULT_FPS, OfInt(30)}

NoResult == [fileName |-> "none"]

NoScan == [points |-> <<>>, skipped |-> -1]

\* one more line is written to the file under test
WriteLine ==
    /\ out = NoResult
    /\ Len(file) < MaxLines
    /\ \E c \in Chunks : file' = Append(file, c)
    /\ UNCHANGED <<fps, scan, out, uiVars>>

\* parseFile runs on the file under test
ParseFile ==
    /\ out = NoResult
    /\ scan' = ParseLines(SplitLines(Text(file)))
    /\ out' = parseFile("under-test.txt", Text(file), fps)
    /\ UNCHANGED <<fps, file, uiVars>>

ParseInit ==
    /\ fps \in ParseRates
    /\ results = <<>>
    /\ isParsing = FALSE
    /\ error = "null"
    /\ sortKey = "averageSpeed"
    /\ sortDir = "desc"
    /\ batches = {}
    /\ started = 0
    /\ file = <<>>
    /\ scan = NoScan
    /\ out = NoResult

ParseNext == WriteLine \/ ParseFile

ParseSpec == ParseInit /\ [][ParseNext]_vars

----------------------------------------------------------------------------
(* The Home component: groups, records, uploads *)

\* most handleFiles calls that get past the fps check, in one run
MaxBatches == 2

\* most records the list and the uploads in flight hold together
MaxRecords == 2

\* the ids of DEFAULT_GROUPS, in order
DEFAULT_GROUPS == <<"select-group", "control", "hinge", "modular", "manual-flex">>

GroupIds == {DEFAULT_GROUPS[i] : i \in DOMAIN DEFAULT_GROUPS}

\* groups[0]?.id ?? DEFAULT_GROUPS[0].id
defaultGroupId == DEFAULT_GROUPS[1]

FPS_MESSAGE == "FPS must be a positive number."

READ_MESSAGE == "Something went wrong while reading the files."

\* the files offered for upload: name and content
UploadNames == {"walk.txt", "still.txt"}

UploadText(name) ==
    IF name = "walk.txt"
    THEN PlainLine(0, <<0, 0, 0>>) \o PlainLine(3, <<2, 3, 6>>)
    ELSE PlainLine(1, <<4, 6, 12>>) \o <<"1", " ", "2", " ", "3", "\n">>

\* the FileLists offered to handleFiles: null or empty, one file, two files
FileLists == {<<>>, <<"walk.txt">>, <<"walk.txt", "still.txt">>}

\* the values the fps field is set to: Number(event.target.value)
FpsInputs == {DEFAULT_FPS, Zero, OfInt(-1), NaN, Infinity}

\* the groups chosen in the selects
GroupChoices == {DEFAULT_GROUPS[1], DEFAULT_GROUPS[2], DEFAULT_GROUPS[3]}

\* the columns whose header is clicked
SortKeys == {"averageSpeed", "fileName"}

\* a file id no record has
UnknownId == <<"gone.txt", 0, 0>>

\* makeId(fileName, index): Date.now() and the random suffix are taken to
\* differ from one handleFiles call to the next, and stand as its number
makeId(fileName, index, round) == <<fileName, round, index>>

\* items.filter((item) => item.groupId === groupId)
InGroup(items, groupId) == SelectSeq(items, LAMBDA item : item.groupId = groupId)

\* the sorted list with one more item: after the items whose order is not larger
RECURSIVE InsertByOrder(_, _)
InsertByOrder(sorted, item) ==
    IF sorted = <<>> THEN <<item>>
    ELSE IF sorted[Len(sorted)].order <= item.order THEN Append(sorted, item)
    ELSE Append(InsertByOrder(SubSeq(sorted, 1, Len(sorted) - 1), item),
                sorted[Len(sorted)])

\* .sort((a, b) => a.order - b.order): stable
RECURSIVE SortByOrder(_)
SortByOrder(items) ==
    IF items = <<>> THEN <<>>
    ELSE InsertByOrder(SortByOrder(SubSeq(items, 1, Len(items) - 1)),
                       items[Len(items)])

\* normalizeGroupOrders with the comparison turned round,
\* .sort((a, b) => b.order - a.order)
normalizeGroupOrdersDescending(items, groupId) ==
    LET ascending == SortByOrder(InGroup(items, groupId))
        sorted == [i \in 1..Len(ascending) |-> ascending[Len(ascending) + 1 - i]]
        holders(id) == {i \in 1..Len(sorted) : sorted[i].id = id}
        orderMap(id) == (CHOOSE i \in holders(id) : \A j \in holders(id) : j <= i) - 1
    IN  [k \in 1..Len(items) |->
            IF items[k].groupId = groupId
            THEN [items[k] EXCEPT !.order =
                     IF holders(items[k].id) # {} THEN orderMap(items[k].id) ELSE @]
            ELSE items[k]]

normalizeGroupOrders(items, groupId) ==
    LET sorted == SortByOrder(InGroup(items, groupId))
        \* new Map(entries): the last entry of an id is the one kept
        holders(id) == {i \in 1..Len(sorted) : sorted[i].id = id}
        orderMap(id) == (CHOOSE i \in holders(id) : \A j \in holders(id) : j <= i) - 1
    IN  [k \in 1..Len(items) |->
            IF items[k].groupId = groupId
            THEN [items[k] EXCEPT !.order =
                     IF holders(items[k].id) # {} THEN orderMap(items[k].id) ELSE @]
            ELSE items[k]]

\* the updater of assignGroup without the renumbering of the source group
AssignGroupDestinationOnly(prev, fileId, groupId) ==
    LET hits == {i \in 1..Len(prev) : prev[i].id = fileId}
        target == prev[CHOOSE i \in hits : \A j \in hits : i <= j]
        destinationOrder == Len(InGroup(prev, groupId))
        moved == [k \in 1..Len(prev) |->
                     IF prev[k].id = fileId
                     THEN [prev[k] EXCEPT !.groupId = groupId,
                                          !.order = destinationOrder]
                     ELSE prev[k]]
    IN  IF hits = {} \/ target.groupId = groupId THEN prev
        ELSE normalizeGroupOrders(moved, groupId)

\* the updater passed to setResults by assignGroup
AssignGroup(prev, fileId, groupId) ==
    LET hits == {i \in 1..Len(prev) : prev[i].id = fileId}
        \* prev.find(...): the first match
        target == prev[CHOOSE i \in hits : \A j \in hits : i <= j]
        destinationOrder == Len(InGroup(prev, groupId))
        moved == [k \in 1..Len(prev) |->
                     IF prev[k].id = fileId
                     THEN [prev[k] EXCEPT !.groupId = groupId,
                                          !.order = destinationOrder]
                     ELSE prev[k]]
    IN  IF hits = {} \/ target.groupId = groupId THEN prev
        ELSE normalizeGroupOrders(
                 normalizeGroupOrders(moved, target.groupId), groupId)

\* the record made of one parsed item
Record(item, id, groupId, order) ==
    [fileName |-> item.fileName, points |-> item.points, skipped |-> item.skipped,
     durationSec |-> item.durationSec, averageSpeed |-> item.averageSpeed,
     maxSpeed |-> item.maxSpeed, maxDisplacement |-> item.maxDisplacement,
     totalPath |-> item.totalPath, id |-> id, groupId |-> groupId, order |-> order]

\* the updater of handleFiles with "order: index"
AppendParsedNoOffset(prev, parsed, round) ==
    prev \o [k \in 1..Len(parsed) |->
                Record(parsed[k], makeId(parsed[k].fileName, k - 1, round),
                       defaultGroupId, k - 1)]

\* the updater passed to setResults by handleFiles
AppendParsed(prev, parsed, round) ==
    LET offset == Len(InGroup(prev, defaultGroupId))
        appended == [k \in 1..Len(parsed) |->
                        Record(parsed[k], makeId(parsed[k].fileName, k - 1, round),
                               defaultGroupId, offset + (k - 1))]
    IN  prev \o appended

\* !Number.isFinite(fps) || fps <= 0, with "<" for "<="
FpsRejectedBelowZero(value) == ~IsFinite(value) \/ RLess(value, Zero)

\* !Number.isFinite(fps) || fps <= 0
FpsRejected(value) == ~IsFinite(value) \/ RLeq(value, Zero)

\* Promise.all(...) is fulfilled: every parseFile has returned
AllParsed(batch) == \A i \in DOMAIN batch.status : batch.status[i] = "parsed"

\* Promise.all(...) is rejected: a file.text() has failed
SomeFailed(batch) == \E i \in DOMAIN batch.status : batch.status[i] = "failed"

\* the files of the uploads in flight
InFlightFiles ==
    LET RECURSIVE Count(_)
        Count(S) == IF S = {} THEN 0
                    ELSE LET b == CHOOSE x \in S : TRUE
                         IN  Len(b.files) + Count(S \ {b})
    IN  Count(batches)

\* setFps deriving the metrics of the records anew when the rate is usable
setFpsRecomputing(value) ==
    /\ fps' = value
    /\ results' =
          IF FpsRejected(value) THEN results
          ELSE [k \in DOMAIN results |->
                   LET item == parseFile(results[k].fileName,
                                         UploadText(results[k].fileName), value)
                   IN  Record(item, results[k].id, results[k].groupId,
                              results[k].order)]
    /\ UNCHANGED <<isParsing, error, sortKey, sortDir, batches, started, parseVars>>

\* onChange of the fps field
setFps(value) ==
    /\ fps' = value
    /\ UNCHANGED <<uiVars, parseVars>>

\* a click on a column header
toggleSort(nextKey) ==
    /\ IF nextKey = sortKey
       THEN /\ sortDir' = (IF sortDir = "asc" THEN "desc" ELSE "asc")
            /\ UNCHANGED sortKey
       ELSE /\ sortKey' = nextKey
            /\ sortDir' = "desc"
    /\ UNCHANGED <<fps, results, isParsing, error, batches, started, parseVars>>

\* onChange of a group select, or any other call
assignGroup(fileId, groupId) ==
    /\ results' = AssignGroup(results, fileId, groupId)
    /\ UNCHANGED <<fps, isParsing, error, sortKey, sortDir, batches, started,
                   parseVars>>

\* the Clear All Files button, shown while the list is not empty
clearAll ==
    /\ results # <<>>
    /\ results' = <<>>
    /\ UNCHANGED <<fps, isParsing, error, sortKey, sortDir, batches, started,
                   parseVars>>

\* handleFiles(files) up to its await: the early returns, or the parses started
handleFiles(files) ==
    IF Len(files) = 0
    THEN UNCHANGED vars
    ELSE IF FpsRejected(fps)
    THEN /\ error' = FPS_MESSAGE
         /\ UNCHANGED <<fps, results, isParsing, sortKey, sortDir, batches, started, parseVars>>
    ELSE /\ started < MaxBatches
         /\ Len(results) + InFlightFiles + Len(files) <= MaxRecords
         /\ error' = "null"
         /\ isParsing' = TRUE
         /\ started' = started + 1
         /\ batches' = batches \cup
                {[id |-> started + 1, files |-> files, rate |-> fps,
                  status |-> [i \in DOMAIN files |-> "pending"],
                  parsed |-> [i \in DOMAIN files |-> NoResult]]}
         /\ UNCHANGED <<fps, results, sortKey, sortDir, parseVars>>

\* one parseFile of an upload returns
parseResolved(batch, i) ==
    /\ batch.status[i] = "pending"
    /\ batches' = (batches \ {batch}) \cup
           {[batch EXCEPT !.status[i] = "parsed",
                          !.parsed[i] = parseFile(batch.files[i],
                                                  UploadText(batch.files[i]),
                                                  batch.rate)]}
    /\ UNCHANGED <<fps, results, isParsing, error, sortKey, sortDir, started,
                   parseVars>>

\* file.text() of one file of an upload fails
parseRejected(batch, i) ==
    /\ batch.status[i] = "pending"
    /\ batches' = (batches \ {batch}) \cup {[batch EXCEPT !.status[i] = "failed"]}
    /\ UNCHANGED <<fps, results, isParsing, error, sortKey, sortDir, started,
                   parseVars>>

\* handleFiles after the await, all parsed: setResults, then finally
handleFilesDone(batch) ==
    /\ AllParsed(batch)
    /\ results' = AppendParsed(results, batch.parsed, batch.id)
    /\ isParsing' = FALSE
    /\ batches' = batches \ {batch}
    /\ UNCHANGED <<fps, error, sortKey, sortDir, started, parseVars>>

\* handleFilesFailed reporting partial results: the files that were parsed
\* are appended before the message is set
handleFilesFailedPartial(batch) ==
    /\ SomeFailed(batch)
    /\ results' = AppendParsed(results,
                       SelectSeq(batch.parsed, LAMBDA item : item # NoResult),
                       batch.id)
    /\ error' = READ_MESSAGE
    /\ isParsing' = FALSE
    /\ batches' = batches \ {batch}
    /\ UNCHANGED <<fps, sortKey, sortDir, started, parseVars>>

\* handleFiles after the await, a read failed: catch, then finally
handleFilesFailed(batch) ==
    /\ SomeFailed(batch)
    /\ error' = READ_MESSAGE
    /\ isParsing' = FALSE
    /\ batches' = batches \ {batch}
    /\ UNCHANGED <<fps, results, sortKey, sortDir, started, parseVars>>

RecordIds == {results[i].id : i \in DOMAIN results}

Init ==
    /\ fps = DEFAULT_FPS
    /\ results = <<>>
    /\ isParsing = FALSE
    /\ error = "null"
    /\ sortKey = "averageSpeed"
    /\ sortDir = "desc"
    /\ batches = {}
    /\ started = 0
    /\ file = <<>>
    /\ scan = NoScan
    /\ out = NoResult

Next ==
    \/ \E value \in FpsInputs : setFps(value)
    \/ \E nextKey \in SortKeys : toggleSort(nextKey)
    \/ \E fileId \in RecordIds \cup {UnknownId}, groupId \in GroupChoices :
          assignGroup(fileId, groupId)
    \/ clearAll
    \/ \E files \in FileLists : handleFiles(files)
    \/ \E batch \in batches : \E i \in DOMAIN batch.files : parseResolved(batch, i)
    \/ \E batch \in batches : \E i \in DOMAIN batch.files : parseRejected(batch, i)
    \/ \E batch \in batches : handleFilesDone(batch)
    \/ \E batch \in batches : handleFilesFailed(batch)

Spec == Init /\ [][Next]_vars

----------------------------------------------------------------------------
(* The organizer alone: the list left by one upload, and the group selects *)

\* most files of the upload the organizer starts from
MaxOrganized == 3

\* the files of one upload, in the order chosen
OrganizedUploads ==
    UNION {[1..n -> UploadNames] : n \in 1..MaxOrganized}

\* the state after handleFiles(files) on the empty list has run to its end
OrganizerInit ==
    /\ fps \in ParseRates
    /\ \E files \in OrganizedUploads :
          results = AppendParsed(<<>>,
                        [i \in DOMAIN files |->
                            parseFile(files[i], UploadText(files[i]), fps)], 1)
    /\ isParsing = FALSE
    /\ error = "null"
    /\ sortKey = "averageSpeed"
    /\ sortDir = "desc"
    /\ batches = {}
    /\ started = 1
    /\ file = <<>>
    /\ scan = NoScan
    /\ out = NoResult

\* the group selects of the organizer
OrganizerNext ==
    \E fileId \in RecordIds \cup {UnknownId}, groupId \in GroupChoices :
        assignGroup(fileId, groupId)

OrganizerSpec == OrganizerInit /\ [][OrganizerNext]_vars

----------------------------------------------------------------------------
(* The Home component with the fps field set to usable rates only, so that *)
(* uploads at different rates stand side by side in the list               *)

MetricsNext ==
    \/ \E value \in ParseRates : setFps(value)
    \/ \E nextKey \in SortKeys : toggleSort(nextKey)
    \/ \E fileId \in RecordIds \cup {UnknownId}, groupId \in GroupChoices :
          assignGroup(fileId, groupId)
    \/ clearAll
    \/ \E files \in FileLists : handleFiles(files)
    \/ \E batch \in batches : \E i \in DOMAIN batch.files : parseResolved(batch, i)
    \/ \E batch \in batches : \E i \in DOMAIN batch.files : parseRejected(batch, i)
    \/ \E batch \in batches : handleFilesDone(batch)
    \/ \E batch \in batches : handleFilesFailed(batch)

MetricsSpec == Init /\ [][MetricsNext]_vars

----------------------------------------------------------------------------
(* What was written into the file under test, read off its chunks *)

Parsed == out # NoResult

\* the samples written, in file order
Written == SelectSeq(file, LAMBDA c : c.kind = "point")

\* the number of non-empty lines that are no sample
RejectedLines == Cardinality({i \in DOMAIN file : file[i].kind = "reject"})

\* the number of non-empty lines
NonEmptyLines == Cardinality({i \in DOMAIN file : file[i].kind # "blank"})

\* the distance between two written positions
Dist(p, q) ==
    IntSqrt((q[1] - p[1]) * (q[1] - p[1]) + (q[2] - p[2]) * (q[2] - p[2])
            + (q[3] - p[3]) * (q[3] - p[3]))

\* the pairs of consecutive samples whose frame goes up, by the index of
\* their second sample, and the others
RisingPairs == {i \in 2..Len(Written) : Written[i].frame > Written[i - 1].frame}

OtherPairs == {i \in 2..Len(Written) : Written[i].frame <= Written[i - 1].frame}

RECURSIVE PathOver(_)
PathOver(S) ==
    IF S = {} THEN 0
    ELSE LET i == CHOOSE j \in S : TRUE
         IN  Dist(Written[i - 1].pos, Written[i].pos) + PathOver(S \ {i})

\* distance over time of the pair ending at sample i, in units per second
PairSpeed(i) ==
    Rat(Dist(Written[i - 1].pos, Written[i].pos) * fps[1],
        (Written[i].frame - Written[i - 1].frame) * fps[2])

(* C5: a file with fewer than 2 valid points gets durationSec,            *)
(* averageSpeed, maxSpeed, maxDisplacement and totalPath all 0, points =   *)
(* the number of valid points, and skipped = the number of non-empty lines *)
(* the token parse rejected.                                               *)
C5_FewPointsZeroMetrics ==
    (Parsed /\ Len(Written) < 2) =>
        /\ out.durationSec = Zero
        /\ out.averageSpeed = Zero
        /\ out.maxSpeed = Zero
        /\ out.maxDisplacement = Zero
        /\ out.totalPath = Zero
        /\ out.points = Len(Written)
        /\ out.skipped = RejectedLines

C5_Witness ==
    /\ Parsed
    /\ Len(Written) = 1
    /\ RejectedLines = 2
    /\ out.points = 1
    /\ out.skipped = 2

(* C6: a pair of consecutive points whose frame does not go up adds       *)
(* nothing to totalPath and maxSpeed, and every pair whose frame goes up,  *)
(* before or after it, adds its distance to totalPath and its speed to     *)
(* maxSpeed: totalPath is the sum over the rising pairs and maxSpeed their *)
(* largest speed.                                                          *)
C6_SkippedSegmentDoesNotStopPass ==
    (Parsed /\ Len(Written) >= 2) =>
        /\ out.totalPath = OfInt(PathOver(RisingPairs))
        /\ \A i \in RisingPairs : RLeq(PairSpeed(i), out.maxSpeed)
        /\ IF RisingPairs = {} THEN out.maxSpeed = Zero
           ELSE \E i \in RisingPairs : out.maxSpeed = PairSpeed(i)

C6_Witness ==
    /\ Parsed
    /\ Len(Written) = 3
    /\ OtherPairs = {2}
    /\ RisingPairs = {3}
    /\ Dist(Written[1].pos, Written[2].pos) > 0
    /\ out.totalPath = OfInt(Dist(Written[2].pos, Written[3].pos))
    /\ RLess(Zero, out.maxSpeed)

(* C7: with at least 2 valid points, skipped = the non-empty lines the    *)
(* token parse rejected + the consecutive pairs whose frame does not go    *)
(* up, and points counts every valid point.                                *)
C7_SkippedCountsLinesAndSegments ==
    (Parsed /\ Len(Written) >= 2) =>
        /\ out.skipped = RejectedLines + Cardinality(OtherPairs)
        /\ out.points = Len(Written)

\* points + skipped exceeds the number of non-empty lines
C7_Witness ==
    /\ Parsed
    /\ RejectedLines = 1
    /\ Cardinality(OtherPairs) = 1
    /\ out.skipped = 2
    /\ out.points + out.skipped > NonEmptyLines

\* the samples lie on a straight line at constant spacing
StraightConstantSpacing ==
    \A i \in 3..Len(Written), k \in 1..3 :
        Written[i].pos[k] - Written[i - 1].pos[k]
            = Written[2].pos[k] - Written[1].pos[k]

StrictlyIncreasingFrames == OtherPairs = {}

ConstantFrameStep ==
    \A i \in 3..Len(Written) :
        Written[i].frame - Written[i - 1].frame
            = Written[2].frame - Written[1].frame

(* C8 as stated: for points strictly increasing in frame on a straight    *)
(* line at constant spacing, averageSpeed equals maxSpeed.                 *)
C8_Original ==
    (Parsed /\ Len(Written) >= 2 /\ StrictlyIncreasingFrames
        /\ StraightConstantSpacing) =>
        out.averageSpeed = out.maxSpeed

(* C8 amended: for points whose frame goes up by one constant step and    *)
(* that lie on a straight line at constant spacing, averageSpeed equals    *)
(* maxSpeed (in the exact arithmetic of the model).                        *)
C8_ConstantStepAverageIsMax ==
    (Parsed /\ Len(Written) >= 2 /\ StrictlyIncreasingFrames
        /\ ConstantFrameStep /\ StraightConstantSpacing) =>
        out.averageSpeed = out.maxSpeed

C8_Witness ==
    /\ Parsed
    /\ Len(Written) = 3
    /\ StrictlyIncreasingFrames
    /\ ConstantFrameStep
    /\ StraightConstantSpacing
    /\ Written[1].pos # Written[2].pos
    /\ RLess(Zero, out.maxSpeed)
    /\ out.averageSpeed = out.maxSpeed

C10_LineClassification ==
    Parsed =>
        /\ scan.skipped = RejectedLines
        /\ Len(scan.points) = Len(Written)
        /\ \A i \in 1..Len(Written) :
              scan.points[i] =
                  [frame |-> OfInt(Written[i].frame),
                   x |-> OfInt(Written[i].pos[1]),
                   y |-> OfInt(Written[i].pos[2]),
                   z |-> OfInt(Written[i].pos[3])]

\* a malformed line, a blank line and a sample, in one file
C10_Witness ==
    /\ Parsed
    /\ Len(file) = 3
    /\ {file[i].kind : i \in 1..3} = {"point", "reject", "blank"}
    /\ scan.skipped = 1
    /\ Len(scan.points) = 1

----------------------------------------------------------------------------
(* Claims about the record list and the uploads *)

\* the order values of a group are pairwise distinct and are 0..n-1
Contiguous(items, groupId) ==
    LET members == {i \in DOMAIN items : items[i].groupId = groupId}
    IN  /\ \A i, j \in members : i # j => items[i].order # items[j].order
        /\ {items[i].order : i \in members} = 0..(Cardinality(members) - 1)

(* C1: in every state reached by uploads, group reassignments and         *)
(* clearAll, the order values of the records of each group are pairwise    *)
(* distinct and are exactly 0..n-1, n the number of records of the group.  *)
C1_GroupOrdersContiguous == \A groupId \in GroupIds : Contiguous(results, groupId)

\* two records of one upload; the first was moved away and the second,
\* appended at order 1, now has order 0
C1_Witness ==
    /\ Len(results) = 2
    /\ results[1].id[2] = results[2].id[2]
    /\ results[2].id[3] = 1
    /\ results[1].groupId = "control"
    /\ results[2].groupId = defaultGroupId
    /\ results[2].order = 0

(* C2: assignGroup keeps the length of the list and the id at every       *)
(* position, and leaves the source group and the destination group with    *)
(* contiguous zero-based order values.                                     *)
C2_AssignGroupPreserves ==
    [][\A fileId \in RecordIds \cup {UnknownId}, groupId \in GroupChoices :
          assignGroup(fileId, groupId) =>
              /\ Len(results') = Len(results)
              /\ \A i \in DOMAIN results : results'[i].id = results[i].id
              /\ Contiguous(results', groupId)
              /\ \A i \in DOMAIN results :
                    results[i].id = fileId => Contiguous(results', results[i].groupId)
      ]_vars

\* both records were moved to the same group, one after the other
C2_Witness ==
    /\ Len(results) = 2
    /\ results[1].groupId = "hinge"
    /\ results[2].groupId = "hinge"
    /\ results[1].order = 1
    /\ results[2].order = 0

\* fps is not a finite positive number
BadFps == fps \in {NaN, Infinity, NegInfinity} \/ fps[1] <= 0

(* C3: handleFiles with a non-empty file list while fps is NaN, infinite, *)
(* zero or negative starts no parse, does not touch isParsing or the       *)
(* results, and sets error to the FPS message.                             *)
C3_BadFpsRejectsBatch ==
    [][\A files \in FileLists :
          (Len(files) > 0 /\ BadFps /\ handleFiles(files)) =>
              /\ batches' = batches
              /\ started' = started
              /\ isParsing' = isParsing
              /\ results' = results
              /\ error' = FPS_MESSAGE
      ]_vars

\* an upload was rejected for its fps after an earlier one was accepted
C3_Witness ==
    /\ error = FPS_MESSAGE
    /\ BadFps
    /\ results # <<>>
    /\ batches = {}
    /\ isParsing = FALSE

(* C4: the list grows only when an upload whose files have all been       *)
(* parsed leaves the await, by that upload's records; an upload with a     *)
(* failed read adds no record, also not for its files that were parsed,    *)
(* sets the generic message, and is dropped without a new parse.           *)
C4_BatchIsAllOrNothing ==
    [][/\ Len(results') > Len(results) =>
              \E batch \in batches :
                  /\ \A i \in DOMAIN batch.status : batch.status[i] = "parsed"
                  /\ batch \notin batches'
                  /\ Len(results') = Len(results) + Len(batch.files)
                  /\ SubSeq(results', 1, Len(results)) = results
                  /\ \A i \in DOMAIN batch.files :
                        /\ results'[Len(results) + i].fileName = batch.files[i]
                        /\ results'[Len(results) + i].points = batch.parsed[i].points
       /\ \A batch \in batches :
              ((\E i \in DOMAIN batch.status : batch.status[i] = "failed")
                  /\ \A other \in batches' : other.id # batch.id) =>
                  /\ results' = results
                  /\ error' = READ_MESSAGE
                  /\ batches' = batches \ {batch}
                  /\ started' = started
      ]_vars

\* the only upload so far has failed and left no record
C4_Witness ==
    /\ started = 1
    /\ batches = {}
    /\ results = <<>>
    /\ error = READ_MESSAGE
    /\ isParsing = FALSE

(* C11: when assignGroup moves a file to another group, the file gets the  *)
(* order equal to the number of records the destination held before, the   *)
(* records of the destination stay as they were, the other records of the  *)
(* source group keep their relative order and get the orders 0..m-1 with   *)
(* nothing else changed, and the records of every other group stay as they *)
(* were.                                                                   *)
C11_MoveAppendsAndCompacts ==
    [][\A fileId \in RecordIds, groupId \in GroupChoices :
          LET t == CHOOSE i \in DOMAIN results : results[i].id = fileId
              source == results[t].groupId
              inDestination == {i \in DOMAIN results : results[i].groupId = groupId}
              remaining == {i \in DOMAIN results :
                               i # t /\ results[i].groupId = source}
          IN  (source # groupId /\ assignGroup(fileId, groupId)) =>
                  /\ Len(results') = Len(results)
                  /\ results'[t] = [results[t] EXCEPT
                                       !.groupId = groupId,
                                       !.order = Cardinality(inDestination)]
                  /\ \A i \in inDestination : results'[i] = results[i]
                  /\ \A i \in remaining :
                        results'[i] = [results[i] EXCEPT !.order = results'[i].order]
                  /\ \A i, j \in remaining :
                        results[i].order < results[j].order =>
                            results'[i].order < results'[j].order
                  /\ {results'[i].order : i \in remaining} =
                         0..(Cardinality(remaining) - 1)
                  /\ \A i \in DOMAIN results :
                        results[i].groupId \notin {source, groupId} =>
                            results'[i] = results[i]
      ]_vars

\* of three files uploaded together the second was moved to "control" and
\* then the first: it stands behind the second there, and the third, which
\* had order 2, is left in the default group with order 0
C11_Witness ==
    /\ Len(results) = 3
    /\ results[1].groupId = "control" /\ results[1].order = 1
    /\ results[2].groupId = "control" /\ results[2].order = 0
    /\ results[3].groupId = defaultGroupId /\ results[3].order = 0

\* the fields of FileMetrics of a record
Metrics(item) ==
    [fileName |-> item.fileName, points |-> item.points, skipped |-> item.skipped,
     durationSec |-> item.durationSec, averageSpeed |-> item.averageSpeed,
     maxSpeed |-> item.maxSpeed, maxDisplacement |-> item.maxDisplacement,
     totalPath |-> item.totalPath]

(* C12: in every step that leaves the list non-empty (an upload, a group   *)
(* reassignment, an fps change, a sort toggle) every record stays at its   *)
(* position with its id and its metrics fields as they were, so only       *)
(* groupId and order can change; and assignGroup on an unknown file id or  *)
(* on the group the file is in leaves the whole list as it was.            *)
C12_MetricsImmutable ==
    [][/\ results' # <<>> =>
              /\ Len(results') >= Len(results)
              /\ \A i \in DOMAIN results :
                    /\ results'[i].id = results[i].id
                    /\ Metrics(results'[i]) = Metrics(results[i])
       /\ \A fileId \in RecordIds \cup {UnknownId}, groupId \in GroupChoices :
              (/\ \/ fileId \notin RecordIds
                  \/ \E i \in DOMAIN results :
                        results[i].id = fileId /\ results[i].groupId = groupId
               /\ assignGroup(fileId, groupId)) =>
                  results' = results
      ]_vars

\* the same file uploaded at 29.999 and then at 30 frames per second: the
\* first record keeps the duration derived at 29.999 after the second
\* upload, a move to "control", a click on the file name column and the
\* return of the fps field to 29.999
C12_Witness ==
    /\ Len(results) = 2
    /\ results[1].fileName = "walk.txt" /\ results[2].fileName = "walk.txt"
    /\ results[1].durationSec = RDiv(OfInt(3), DEFAULT_FPS)
    /\ results[2].durationSec = Rat(1, 10)
    /\ results[1].groupId = "control"
    /\ sortKey = "fileName"
    /\ fps = DEFAULT_FPS

(* C13: under any interleaving of overlapping uploads, isParsing is true   *)
(* whenever an accepted upload has been started and has not yet left its   *)
(* finally block, and it is false only when no upload is in flight.        *)
C13_IsParsingWhileInFlight == (batches # {}) => (isParsing = TRUE)

============================================================================
